---- MODULE Spec2Model ----
(***************************************************************************)
(* A model of the CourtListener MCP bridge:                                *)
(*   - make_api_request        (src/server.py 22-65): authenticated GET    *)
(*     with status classification and exponential backoff;                 *)
(*   - search_with_pagination  (src/server.py 449-540): cursor pagination  *)
(*     on top of make_api_request;                                         *)
(*   - search_cases            (src/server.py 67-160): one search with     *)
(*     optional filters, on top of make_api_request;                       *)
(*   - convert_to_llm_tool, call_llm, run (src/client.py): the schema      *)
(*     bridge and the tool dispatch loop.                                  *)
(* Strings the code slices or parses (URLs, cursors, max_pages, JSON       *)
(* argument strings) are sequences of one-character strings.               *)
(***************************************************************************)
EXTENDS Integers, Sequences, FiniteSets, TLC

VARIABLES
    entry,          \* which entry point this run exercises
    \* ---- make_api_request (one call) ----
    retries,        \* the `retries` argument
    attempt,        \* the loop variable of `for attempt in range(retries)`
    rpc,            \* position: "idle", "loop", "sleep", "returned", "raised"
    events,         \* what the call did so far: HTTP requests and sleeps, in order
    rresult,        \* the value the call returned
    reqParams,      \* the `params` argument of the call
    \* ---- search_with_pagination ----
    source,         \* the remote API the requests are served by
    search_type, query, cursor, max_pages,    \* the tool's arguments
    ppc,            \* position: "idle", "start", "top", "await", "returned", "raised"
    max_pages_int, params, all_results, current_cursor, pages_fetched,
    fetches,        \* calls of make_api_request made by this aggregation
    presult,        \* what search_with_pagination returned
    \* ---- search_cases ----
    filters,        \* the tool's arguments
    spc,            \* position: "idle", "start", "await", "returned", "raised"
    sresult,        \* what search_cases returned
    \* ---- client run() ----
    cpc,            \* position in run()
    tools,          \* what session.list_tools() returned
    toolIdx,        \* index of the descriptor being converted
    functions,      \* the schema list built so far
    llmCalls,       \* how many times the model was contacted
    sentTools,      \* the schema list handed to the model
    modelCalls,     \* the tool calls of the model's response
    functions_to_call, \* what call_llm returned
    callIdx,        \* index of the call being dispatched
    invoked         \* the session.call_tool invocations made, in order

reqVars == <<retries, attempt, rpc, events, rresult, reqParams>>
pagVars == <<source, search_type, query, cursor, max_pages, ppc, max_pages_int,
             params, all_results, current_cursor, pages_fetched, fetches,
             presult>>
casVars == <<filters, spc, sresult>>
cliVars == <<cpc, tools, toolIdx, functions, llmCalls, sentTools, modelCalls,
             functions_to_call, callIdx, invoked>>
vars == <<entry, reqVars, pagVars, casVars, cliVars>>

(***************************************************************************)
(* Bounds of the model.                                                    *)
(***************************************************************************)
MaxRetries == 4     \* largest retry budget of a direct make_api_request call
MaxServed == 11     \* largest number of pages a paged source serves
MaxTools == 2       \* largest number of descriptors list_tools returns
MaxCalls == 3       \* largest number of tool calls in a model response

Min(a, b) == IF a < b THEN a ELSE b

RECURSIVE Pow2(_)
Pow2(k) == IF k <= 0 THEN 1 ELSE 2 * Pow2(k - 1)

(***************************************************************************)
(* Response bodies.  A body either fails to decode as JSON or is a JSON    *)
(* object with optional "error", "results" and "next" members.             *)
(***************************************************************************)
NoUrl == << >>
NextAbsent == [kind |-> "absent", url |-> NoUrl]
NextNull == [kind |-> "null", url |-> NoUrl]
NextUrl(u) == [kind |-> "url", url |-> u]

Body(dec, err, hasRes, res, nxt) ==
    [dec |-> dec, err |-> err, hasResults |-> hasRes, results |-> res, next |-> nxt]
Undecodable == Body(FALSE, FALSE, FALSE, << >>, NextAbsent)
EmptyObject == Body(TRUE, FALSE, FALSE, << >>, NextAbsent)

\* The outcome of one requests.get: an exception of the transport, or a response.
Timeout == [t |-> "Timeout", status |-> 0, body |-> Undecodable]
ConnErr == [t |-> "ConnectionError", status |-> 0, body |-> Undecodable]
Resp(s, b) == [t |-> "Response", status |-> s, body |-> b]

\* The dict make_api_request returns: an {"error": msg} record or the decoded body.
ErrorResult(msg, n) == [tag |-> "error", msg |-> msg, n |-> n, body |-> Undecodable]
JsonResult(b) == [tag |-> "json", msg |-> "", n |-> 0, body |-> b]
NoResult == [tag |-> "none", msg |-> "", n |-> 0, body |-> Undecodable]

\* `"error" in result`, as the callers test it
HasErrorKey(r) == r.tag = "error" \/ (r.tag = "json" /\ r.body.err)

(***************************************************************************)
(* make_api_request, src/server.py 22-65                                   *)
(***************************************************************************)
\* a variant that forgets the 404 test of line 48
TerminalStatusNo404(s) == s \in {429, 401}

\* lines 40, 44, 48: the statuses answered at once, without a retry
TerminalStatus(s) == s \in {429, 401, 404}

\* lines 41, 45, 49: the error each of them returns
StatusError(s) ==
    CASE s = 429 -> "Rate limit exceeded"
      [] s = 401 -> "Authentication failed"
      [] s = 404 -> "Not found or invalid cursor"

\* line 51, response.raise_for_status(): HTTPError for 4xx and 5xx, nothing otherwise
RaisesForStatus(s) == s >= 400 /\ s < 600

\* The exception one attempt raises inside the try block (lines 37-52), "none"
\* when the block returns: requests.get raises Timeout or ConnectionError,
\* raise_for_status raises HTTPError, response.json() raises JSONDecodeError.
Raised(o) ==
    CASE o.t = "Timeout" -> "Timeout"
      [] o.t = "ConnectionError" -> "ConnectionError"
      [] o.t = "Response" /\ TerminalStatus(o.status) -> "none"
      [] o.t = "Response" /\ RaisesForStatus(o.status) -> "HTTPError"
      [] o.t = "Response" /\ ~o.body.dec -> "JSONDecodeError"
      [] OTHER -> "none"

\* line 54: except requests.Timeout
IsTimeout(exc) == exc = "Timeout"

\* a variant in which the decode error is no RequestException (a plain ValueError)
IsRequestExceptionNoJson(exc) == exc \in {"Timeout", "ConnectionError", "HTTPError"}

\* line 59: except requests.RequestException.  HTTPError and ConnectionError are
\* subclasses of it, and so is the JSONDecodeError of response.json()
\* (requests.exceptions.JSONDecodeError, requests 2.27 and later).
IsRequestException(exc) == exc \in {"Timeout", "ConnectionError", "HTTPError", "JSONDecodeError"}

\* lines 40-52: what the try block returns when nothing is raised
TryReturn(o) ==
    IF TerminalStatus(o.status) THEN ErrorResult(StatusError(o.status), 0)
    ELSE JsonResult(o.body)

\* a variant that sleeps after the last attempt as well
MayRetryAlways(a, n) == a < n

\* lines 55, 60: the handlers retry while this holds
MayRetry(a, n) == a < n - 1

\* a variant that sleeps 2 ** (attempt + 1)
BackoffOffByOne(a) == Pow2(a + 1)

\* a variant that sleeps attempt + 1
BackoffLinear(a) == a + 1

\* lines 56, 61: time.sleep(2 ** attempt)
Backoff(a) == Pow2(a)

\* a variant that answers the last failed attempt with the message of line 65
ExhaustedErrorGeneric(exc, n) == ErrorResult("Maximum retries exceeded", 0)

\* lines 58, 63: the error of the last attempt, carrying `retries`
ExhaustedError(exc, n) ==
    IF IsTimeout(exc) THEN ErrorResult("Request timed out after", n)
    ELSE ErrorResult("API request failed after", n)

\* line 65
FallThroughError == ErrorResult("Maximum retries exceeded", 0)

GetEvent(o) == [e |-> "get", d |-> 0, out |-> o]
SleepEvent(d) == [e |-> "sleep", d |-> d, out |-> Timeout]

\* The outcomes a direct call is exercised with.
Statuses == {200, 201, 304, 400, 401, 404, 429, 500}
ErrorObject == Body(TRUE, TRUE, FALSE, << >>, NextAbsent)
DirectOutcomes ==
    {Timeout, ConnErr}
    \cup {Resp(s, b) : s \in {200, 201, 304}, b \in {Undecodable, EmptyObject, ErrorObject}}
    \cup {Resp(s, b) : s \in Statuses \ {200, 201, 304}, b \in {Undecodable}}

(***************************************************************************)
(* Strings as sequences of characters, with the str methods the code uses. *)
(***************************************************************************)
OccursAt(s, p, i) == i >= 1 /\ i + Len(p) - 1 <= Len(s) /\ SubSeq(s, i, i + Len(p) - 1) = p

\* s.find(p), 1-based; 0 when p does not occur
Find(s, p) ==
    IF \E i \in 1..Len(s) : OccursAt(s, p, i)
    THEN CHOOSE i \in 1..Len(s) : OccursAt(s, p, i) /\ \A j \in 1..(i - 1) : ~OccursAt(s, p, j)
    ELSE 0

\* p in s
Contains(s, p) == Find(s, p) # 0

\* s.split(p)[0]
SplitFirst(s, p) == IF Contains(s, p) THEN SubSeq(s, 1, Find(s, p) - 1) ELSE s

\* s.split(p)[1], for s that contains p
SplitSecond(s, p) == SplitFirst(SubSeq(s, Find(s, p) + Len(p), Len(s)), p)

CursorEq == <<"c", "u", "r", "s", "o", "r", "=">>
Amp == <<"&">>

\* dict operations on the query parameters
EmptyDict == [k \in {} |-> << >>]
DictSet(d, k, v) == [x \in DOMAIN d \cup {k} |-> IF x = k THEN v ELSE d[x]]
DictDel(d, k) == [x \in DOMAIN d \ {k} |-> d[x]]

(***************************************************************************)
(* The remote API.  A paged source serves `pages` consecutive non-empty    *)
(* pages, each but the last linking to the next by a cursor; an arbitrary  *)
(* source answers every request with any body.                             *)
(***************************************************************************)
DigitChar(d) == <<"0", "1", "2", "3", "4", "5", "6", "7", "8", "9">>[d + 1]
Token(i) == IF i < 10 THEN <<"c", DigitChar(i)>>
            ELSE <<"c", DigitChar(i \div 10), DigitChar(i % 10)>>
LinkTo(i) == <<"?">> \o CursorEq \o Token(i) \o (IF i % 2 = 0 THEN <<"&", "t">> ELSE << >>)
Items(i) == IF i % 4 = 0 THEN <<10 * i, 10 * i + 1>> ELSE <<10 * i>>

PagedSource(n) == [kind |-> "paged", pages |-> n]
AnySource == [kind |-> "any", pages |-> 0]

\* the page a paged source serves for the query parameters, 0 for an unknown cursor
PageOf(src, prm) ==
    IF "cursor" \notin DOMAIN prm THEN 1
    ELSE IF \E i \in 1..src.pages : Token(i) = prm["cursor"]
         THEN CHOOSE i \in 1..src.pages : Token(i) = prm["cursor"]
         ELSE 0

PageBody(src, i) ==
    Body(TRUE, FALSE, TRUE, Items(i),
         IF i < src.pages THEN NextUrl(LinkTo(i + 1)) ELSE NextNull)

AnyUrls == { << >>,
             <<"?", "p", "=", "2">>,
             LinkTo(2),
             LinkTo(3),
             <<"?">> \o CursorEq \o <<"&", "t">>,
             <<"?">> \o CursorEq \o Token(2) \o CursorEq \o Token(3) }
AnyNexts == {NextAbsent, NextNull} \cup {NextUrl(u) : u \in AnyUrls}
AnyBodies(f) ==
    {ErrorObject}
    \cup {Body(TRUE, FALSE, FALSE, << >>, n) : n \in {NextAbsent, NextUrl(LinkTo(2))}}
    \cup {Body(TRUE, FALSE, TRUE, << >>, n) : n \in {NextAbsent, NextUrl(LinkTo(2))}}
    \cup {Body(TRUE, FALSE, TRUE, <<100 + f>>, n) : n \in AnyNexts}

\* the failures any request of an aggregation may meet
PageFailures == {Timeout, Resp(500, Undecodable), Resp(429, Undecodable)}

Serve(src, prm, f) ==
    PageFailures \cup
    IF src.kind = "paged"
    THEN IF PageOf(src, prm) = 0 THEN {Resp(404, Undecodable)}
         ELSE {Resp(200, PageBody(src, PageOf(src, prm)))}
    ELSE {Resp(200, b) : b \in AnyBodies(f)}

\* what the search endpoint answers to search_cases
CasesOutcomes ==
    PageFailures
    \cup {Resp(200, b) : b \in {ErrorObject, EmptyObject,
                                Body(TRUE, FALSE, TRUE, <<1, 2>>, NextUrl(LinkTo(2))),
                                Body(TRUE, FALSE, TRUE, <<1>>, NextNull)}}

\* The outcomes the call's HTTP request can have.
Outcomes ==
    IF entry = "paginate" THEN Serve(source, reqParams, fetches)
    ELSE IF entry = "cases" THEN CasesOutcomes
    ELSE DirectOutcomes

\* One iteration of the loop body, lines 35-63, up to its return or its sleep.
ReqAttempt ==
    /\ rpc = "loop"
    /\ attempt < retries
    /\ \E o \in Outcomes :
        /\ events' = Append(events, GetEvent(o))
        /\ IF Raised(o) = "none"
           THEN /\ rpc' = "returned"
                /\ rresult' = TryReturn(o)
           ELSE IF ~IsTimeout(Raised(o)) /\ ~IsRequestException(Raised(o))
           THEN /\ rpc' = "raised"
                /\ rresult' = rresult
           ELSE IF MayRetry(attempt, retries)
           THEN /\ rpc' = "sleep"
                /\ rresult' = rresult
           ELSE /\ rpc' = "returned"
                /\ rresult' = ExhaustedError(Raised(o), retries)
    /\ UNCHANGED <<entry, retries, attempt, reqParams, pagVars, casVars, cliVars>>

\* lines 56-57, 61-62: the backoff sleep, then `continue`
ReqSleep ==
    /\ rpc = "sleep"
    /\ events' = Append(events, SleepEvent(Backoff(attempt)))
    /\ attempt' = attempt + 1
    /\ rpc' = "loop"
    /\ UNCHANGED <<entry, retries, rresult, reqParams, pagVars, casVars, cliVars>>

\* line 65: range(retries) is exhausted without a return
ReqFallThrough ==
    /\ rpc = "loop"
    /\ attempt >= retries
    /\ rpc' = "returned"
    /\ rresult' = FallThroughError
    /\ UNCHANGED <<entry, retries, attempt, events, reqParams, pagVars, casVars, cliVars>>

(***************************************************************************)
(* search_with_pagination, src/server.py 449-540                           *)
(***************************************************************************)
DigitChars == {"0", "1", "2", "3", "4", "5", "6", "7", "8", "9"}
DigitVal(c) == CHOOSE d \in 0..9 : DigitChar(d) = c

RECURSIVE Strip(_)
Strip(s) ==
    IF s = << >> THEN s
    ELSE IF Head(s) = " " THEN Strip(Tail(s))
    ELSE IF s[Len(s)] = " " THEN Strip(SubSeq(s, 1, Len(s) - 1))
    ELSE s

Unsigned(s) == IF Strip(s) # << >> /\ Head(Strip(s)) \in {"+", "-"} THEN Tail(Strip(s)) ELSE Strip(s)

RECURSIVE NatVal(_)
NatVal(s) == IF s = << >> THEN 0 ELSE 10 * NatVal(SubSeq(s, 1, Len(s) - 1)) + DigitVal(s[Len(s)])

\* int(s): whether it parses (no ValueError), and its value
IntOk(s) == Unsigned(s) # << >> /\ \A i \in 1..Len(Unsigned(s)) : Unsigned(s)[i] \in DigitChars
IntVal(s) == IF Head(Strip(s)) = "-" THEN 0 - NatVal(Unsigned(s)) ELSE NatVal(Unsigned(s))

PageCeiling == 10
DefaultPages == 3
DefaultRetries == 3

\* a variant without the min(..., 10) of line 469
ClampPagesNoCeiling(mp) == IF IntOk(mp) THEN IntVal(mp) ELSE DefaultPages

\* a variant whose ValueError branch takes the ceiling instead of 3
ClampPagesDefaultCeiling(mp) == IF IntOk(mp) THEN Min(IntVal(mp), PageCeiling) ELSE PageCeiling

\* lines 468-471
ClampPages(mp) == IF IntOk(mp) THEN Min(IntVal(mp), PageCeiling) ELSE DefaultPages

\* line 465
ValidTypes == {"opinions", "dockets", "courts", "people"}

\* lines 475-484: the parameter the query is sent as
QueryKey(st) ==
    CASE st = "opinions" -> "q"
      [] st = "dockets" -> "case_name__icontains"
      [] st = "courts" -> "full_name__icontains"
      [] st = "people" -> "name_full__icontains"

\* lines 473-487
BaseParams(st, q, c) ==
    LET withQuery == IF q # << >> THEN DictSet(EmptyDict, QueryKey(st), q) ELSE EmptyDict
    IN IF c # << >> THEN DictSet(withQuery, "cursor", c) ELSE withQuery

\* a variant that sets the cursor only when the parameters hold none yet
IterParamsKeepsOld(prm, cur) ==
    IF cur # << >> /\ "cursor" \notin DOMAIN prm THEN DictSet(prm, "cursor", cur) ELSE prm

\* lines 494-497
IterParams(prm, cur) == IF cur # << >> THEN DictSet(prm, "cursor", cur) ELSE DictDel(prm, "cursor")

\* line 517
ExtractCursor(u) == SplitFirst(SplitSecond(u, CursorEq), Amp)

\* what the tool returns: an error text, the "No ... found" text, or the listing
PagText(kind, msg, items, pages) ==
    [kind |-> kind, msg |-> msg, count |-> Len(items), pages |-> pages, items |-> items]
NoText == PagText("pending", "", << >>, 0)

\* a variant that answers a failed page with the "No ... found" text
ErrorTextAsNone(r) == PagText("none", "", << >>, 0)

\* line 502: return result["error"]
ErrorText(r) == PagText("error", IF r.tag = "error" THEN r.msg ELSE "error member of the body", << >>, 0)

\* a variant without the test of line 521
FinishAlwaysFound(items, pages) == PagText("found", "", items, pages)

\* lines 521-540
Finish(items, pages) ==
    IF items = << >> THEN PagText("none", "", << >>, 0)
    ELSE PagText("found", "", items, pages)

\* a variant whose loop test is `pages_fetched <= max_pages_int`
LoopGoesOnInclusive(fetched, ceiling) == fetched <= ceiling

\* a variant whose loop test is `pages_fetched != max_pages_int`
LoopGoesOnNotEqual(fetched, ceiling) == fetched # ceiling

\* line 493
LoopGoesOn(fetched, ceiling) == fetched < ceiling

\* line 504
PageIsEmpty(b) == ~b.hasResults \/ b.results = << >>

\* lines 511-512: result.get('next') is None or empty
NoNext(b) == b.next.kind # "url" \/ b.next.url = << >>

\* a variant that goes on when `next` is null, reusing the cursor it holds
HasNextCursorOrNull(b) == b.next.kind = "null" \/ (~NoNext(b) /\ Contains(b.next.url, CursorEq))

\* lines 511-519: the page links to a further page by a cursor
HasNextCursor(b) == ~NoNext(b) /\ Contains(b.next.url, CursorEq)

\* line 507
Accumulate(all, page) == all \o page

\* lines 465-491
PagStart ==
    /\ ppc = "start"
    /\ IF search_type \notin ValidTypes
       THEN /\ ppc' = "returned"
            /\ presult' = PagText("error", "search_type must be one of", << >>, 0)
            /\ UNCHANGED <<max_pages_int, params, all_results, current_cursor, pages_fetched>>
       ELSE /\ max_pages_int' = ClampPages(max_pages)
            /\ params' = BaseParams(search_type, query, cursor)
            /\ all_results' = << >>
            /\ current_cursor' = cursor
            /\ pages_fetched' = 0
            /\ ppc' = "top"
            /\ presult' = presult
    /\ UNCHANGED <<entry, reqVars, source, search_type, query, cursor, max_pages, fetches, casVars, cliVars>>

\* lines 493-499: the loop test, the cursor parameter, the call of make_api_request;
\* lines 521-540 when the loop test fails
PagIterate ==
    /\ ppc = "top"
    /\ IF LoopGoesOn(pages_fetched, max_pages_int)
       THEN /\ params' = IterParams(params, current_cursor)
            /\ reqParams' = params'
            /\ retries' = DefaultRetries
            /\ attempt' = 0
            /\ rpc' = "loop"
            /\ events' = << >>
            /\ rresult' = NoResult
            /\ fetches' = fetches + 1
            /\ ppc' = "await"
            /\ presult' = presult
       ELSE /\ ppc' = "returned"
            /\ presult' = Finish(all_results, pages_fetched)
            /\ UNCHANGED <<params, reqVars, fetches>>
    /\ UNCHANGED <<entry, source, search_type, query, cursor, max_pages, max_pages_int,
                   all_results, current_cursor, pages_fetched, casVars, cliVars>>

\* a variant of the loop body that skips a failed page (`continue`) and asks again
PagResultSkipsFailure ==
    /\ ppc = "await"
    /\ rpc \in {"returned", "raised"}
    /\ rpc' = "idle"
    /\ IF rpc = "raised" \/ HasErrorKey(rresult)
       THEN /\ ppc' = "top"
            /\ UNCHANGED <<presult, all_results, pages_fetched, current_cursor>>
       ELSE IF PageIsEmpty(rresult.body)
       THEN /\ ppc' = "returned"
            /\ presult' = Finish(all_results, pages_fetched)
            /\ UNCHANGED <<all_results, pages_fetched, current_cursor>>
       ELSE /\ all_results' = Accumulate(all_results, rresult.body.results)
            /\ pages_fetched' = pages_fetched + 1
            /\ IF HasNextCursor(rresult.body)
               THEN /\ current_cursor' = ExtractCursor(rresult.body.next.url)
                    /\ ppc' = "top"
                    /\ presult' = presult
               ELSE /\ current_cursor' = current_cursor
                    /\ ppc' = "returned"
                    /\ presult' = Finish(all_results', pages_fetched')
    /\ UNCHANGED <<entry, retries, attempt, events, rresult, reqParams, source, search_type,
                   query, cursor, max_pages, max_pages_int, params, fetches, casVars, cliVars>>

\* lines 501-519: what the loop body does with the page, and lines 521-540 on a break
PagResult ==
    /\ ppc = "await"
    /\ rpc \in {"returned", "raised"}
    /\ rpc' = "idle"
    /\ IF rpc = "raised"
       THEN /\ ppc' = "raised"
            /\ UNCHANGED <<presult, all_results, pages_fetched, current_cursor>>
       ELSE IF HasErrorKey(rresult)
       THEN /\ ppc' = "returned"
            /\ presult' = ErrorText(rresult)
            /\ UNCHANGED <<all_results, pages_fetched, current_cursor>>
       ELSE IF PageIsEmpty(rresult.body)
       THEN /\ ppc' = "returned"
            /\ presult' = Finish(all_results, pages_fetched)
            /\ UNCHANGED <<all_results, pages_fetched, current_cursor>>
       ELSE /\ all_results' = Accumulate(all_results, rresult.body.results)
            /\ pages_fetched' = pages_fetched + 1
            /\ IF HasNextCursor(rresult.body)
               THEN /\ current_cursor' = ExtractCursor(rresult.body.next.url)
                    /\ ppc' = "top"
                    /\ presult' = presult
               ELSE /\ current_cursor' = current_cursor
                    /\ ppc' = "returned"
                    /\ presult' = Finish(all_results', pages_fetched')
    /\ UNCHANGED <<entry, retries, attempt, events, rresult, reqParams, source, search_type,
                   query, cursor, max_pages, max_pages_int, params, fetches, casVars, cliVars>>

(***************************************************************************)
(* search_cases, src/server.py 67-160                                      *)
(***************************************************************************)
\* the arguments of the tool, every one a string
Filters(q, cn, co, fa, fb, cg, j, hl, lim) ==
    [query |-> q, case_name |-> cn, court |-> co, date_filed_after |-> fa,
     date_filed_before |-> fb, cited_gt |-> cg, judge |-> j, highlight |-> hl, limit |-> lim]
NoFilters == Filters(<< >>, << >>, << >>, << >>, << >>, << >>, << >>, << >>, << >>)

\* line 105: f'caseName:"{case_name}"'
CaseNameTerm(cn) ==
    <<"c", "a", "s", "e", "N", "a", "m", "e", ":", "\"">> \o cn \o <<"\"">>

\* lines 101-105: the parts of the query string, in order
QueryParts(f) ==
    (IF f.query # << >> THEN <<f.query>> ELSE << >>)
    \o (IF f.case_name # << >> THEN <<CaseNameTerm(f.case_name)>> ELSE << >>)

\* line 108: ' AND '.join(query_parts)
RECURSIVE JoinAnd(_)
JoinAnd(parts) ==
    IF Len(parts) = 0 THEN << >>
    ELSE IF Len(parts) = 1 THEN parts[1]
    ELSE parts[1] \o <<" ", "A", "N", "D", " ">> \o JoinAnd(Tail(parts))

\* a variant that sets the key whatever the value
SetFilterAlways(d, k, v) == DictSet(d, k, v)

\* lines 111-120, one filter of search_cases: `if value: params[key] = value`
SetFilter(d, k, v) == IF v # << >> THEN DictSet(d, k, v) ELSE d

\* lines 94-120: the parameters search_cases sends
CasesParams(f) ==
    LET base == DictSet(DictSet(EmptyDict, "type", <<"o">>), "format", <<"j", "s", "o", "n">>)
        withQ == IF QueryParts(f) # << >> THEN DictSet(base, "q", JoinAnd(QueryParts(f))) ELSE base
        p1 == SetFilter(withQ, "court", f.court)
        p2 == SetFilter(p1, "filed_after", f.date_filed_after)
        p3 == SetFilter(p2, "filed_before", f.date_filed_before)
        p4 == SetFilter(p3, "cited_gt", f.cited_gt)
        p5 == SetFilter(p4, "judge", f.judge)
    IN SetFilter(p5, "highlight", f.highlight)

\* lines 131-134: min(int(limit), len(results)), len(results) on a ValueError
MaxResults(lim, n) == IF IntOk(lim) THEN Min(IntVal(lim), n) ELSE n

\* line 138: results[:max_results], with Python's reading of a negative bound
SliceTo(res, m) ==
    IF m >= 0 THEN SubSeq(res, 1, Min(m, Len(res)))
    ELSE SubSeq(res, 1, IF Len(res) + m > 0 THEN Len(res) + m ELSE 0)

\* what search_cases returns: an error text, "No results found", or the listing
CasesText(kind, msg, shown, listed, more) ==
    [kind |-> kind, msg |-> msg, shown |-> shown, listed |-> listed, more |-> more]
NoCasesText == CasesText("pending", "", 0, << >>, FALSE)

\* lines 124-160
CasesAnswer(r, lim) ==
    IF HasErrorKey(r)
    THEN CasesText("error", IF r.tag = "error" THEN r.msg ELSE "error member of the body",
                   0, << >>, FALSE)
    ELSE IF ~r.body.hasResults THEN CasesText("none", "", 0, << >>, FALSE)
    ELSE CasesText("found", "", MaxResults(lim, Len(r.body.results)),
                   SliceTo(r.body.results, MaxResults(lim, Len(r.body.results))),
                   r.body.next.kind = "url" /\ r.body.next.url # << >>)

\* lines 94-122: the parameters are built and make_api_request("search", params) is called
CasesStart ==
    /\ spc = "start"
    /\ reqParams' = CasesParams(filters)
    /\ retries' = DefaultRetries
    /\ attempt' = 0
    /\ rpc' = "loop"
    /\ events' = << >>
    /\ rresult' = NoResult
    /\ spc' = "await"
    /\ UNCHANGED <<entry, pagVars, filters, sresult, cliVars>>

\* lines 124-160: the answer is formatted
CasesResult ==
    /\ spc = "await"
    /\ rpc \in {"returned", "raised"}
    /\ rpc' = "idle"
    /\ IF rpc = "raised"
       THEN spc' = "raised" /\ sresult' = sresult
       ELSE spc' = "returned" /\ sresult' = CasesAnswer(rresult, filters.limit)
    /\ UNCHANGED <<entry, retries, attempt, events, rresult, reqParams, pagVars, filters, cliVars>>

(***************************************************************************)
(* convert_to_llm_tool, call_llm and run, src/client.py                    *)
(***************************************************************************)
\* A tool descriptor: an object whose attributes may be absent, None or empty.
NoneValue == [isNone |-> TRUE, s |-> ""]
Str(s) == [isNone |-> FALSE, s |-> s]
Props(names) == [null |-> FALSE, names |-> names]
NullProps == [null |-> TRUE, names |-> {}]
\* an inputSchema: the attribute may be absent or None, else a dict with these keys
InputSchema(hasAttr, isNone, keys, props) ==
    [hasAttr |-> hasAttr, isNone |-> isNone, keys |-> keys, properties |-> props]
SchemaAbsent == InputSchema(FALSE, FALSE, {}, Props({}))
SchemaNone == InputSchema(TRUE, TRUE, {}, Props({}))
SchemaEmpty == InputSchema(TRUE, FALSE, {}, Props({}))
SchemaNoProps == InputSchema(TRUE, FALSE, {"type"}, Props({}))
SchemaProps(names) == InputSchema(TRUE, FALSE, {"type", "properties"}, Props(names))
SchemaNullProps == InputSchema(TRUE, FALSE, {"type", "properties"}, NullProps)
Tool(falsy, hasName, name, hasDesc, desc, schema) ==
    [falsy |-> falsy, hasName |-> hasName, name |-> name, hasDescription |-> hasDesc,
     description |-> desc, inputSchema |-> schema]

\* the converted schema, or the None that rejects the descriptor
Rejected == [ok |-> FALSE, name |-> NoneValue, description |-> NoneValue, properties |-> Props({})]
ToolSchema(name, desc, props) == [ok |-> TRUE, name |-> name, description |-> desc, properties |-> props]

\* line 54
IsInvalidTool(t) == t.falsy \/ ~t.hasName \/ ~t.hasDescription

\* lines 59-61
PropertiesOf(t) ==
    IF t.inputSchema.hasAttr /\ ~t.inputSchema.isNone /\ t.inputSchema.keys # {}
       /\ "properties" \in t.inputSchema.keys
    THEN t.inputSchema.properties
    ELSE Props({})

\* lines 52-74
convert_to_llm_tool(t) ==
    IF IsInvalidTool(t) THEN Rejected
    ELSE ToolSchema(t.name, t.description, PropertiesOf(t))

\* line 93 reads tool.name and line 94 calls .get on the inputSchema: an
\* AttributeError when the attribute is absent, or the inputSchema is None
PrintRaises(t) == t.falsy \/ ~t.hasName \/ (t.inputSchema.hasAttr /\ t.inputSchema.isNone)

\* json.loads of an argument string: the objects {} and {"k":d}
Quote == "\""
JsonOk(a) ==
    \/ a = <<"{", "}">>
    \/ /\ Len(a) = 7
       /\ a[1] = "{" /\ a[2] = Quote /\ a[3] \in {"q", "k"} /\ a[4] = Quote
       /\ a[5] = ":" /\ a[6] \in DigitChars /\ a[7] = "}"
JsonLoads(a) == IF Len(a) = 7 THEN [k \in {a[3]} |-> DigitVal(a[6])] ELSE [k \in {} |-> 0]

\* a variant that inserts each parsed call at the front of the list
RECURSIVE ParseCallsReversed(_)
ParseCallsReversed(calls) ==
    IF calls = << >> THEN << >>
    ELSE ParseCallsReversed(Tail(calls))
         \o <<[name |-> Head(calls).name, args |-> JsonLoads(Head(calls).arguments)]>>

\* lines 40-48: the list call_llm builds from the tool calls of the response
RECURSIVE ParseCalls(_)
ParseCalls(calls) ==
    IF calls = << >> THEN << >>
    ELSE <<[name |-> Head(calls).name, args |-> JsonLoads(Head(calls).arguments)]>>
         \o ParseCalls(Tail(calls))

\* line 45 raises for one of the calls
ParseRaises(calls) == \E i \in 1..Len(calls) : ~JsonOk(calls[i].arguments)

\* The descriptors and the model responses the loop is exercised with.
Descriptors ==
    { Tool(FALSE, TRUE, Str("search"), TRUE, Str("Search cases"), SchemaProps({"query"})),
      Tool(FALSE, TRUE, Str("status"), TRUE, Str("API status"), SchemaAbsent),
      Tool(FALSE, TRUE, Str("courts"), TRUE, Str("List courts"), SchemaNullProps),
      Tool(FALSE, TRUE, Str(""), TRUE, Str("No name"), SchemaEmpty),
      Tool(FALSE, TRUE, Str("undescribed"), TRUE, Str(""), SchemaNoProps),
      Tool(FALSE, TRUE, Str("nodesc"), TRUE, NoneValue, SchemaNoProps),
      Tool(FALSE, TRUE, Str("bare"), FALSE, NoneValue, SchemaNoProps),
      Tool(FALSE, FALSE, NoneValue, TRUE, Str("Anonymous"), SchemaNoProps),
      Tool(FALSE, TRUE, Str("noschema"), TRUE, Str("Schema is None"), SchemaNone) }
GoodArgs == <<"{", Quote, "q", Quote, ":", "1", "}">>
BadArgs == <<"{", Quote, "q", Quote, ":">>
ToolCalls ==
    { [name |-> "search", arguments |-> GoodArgs],
      [name |-> "status", arguments |-> <<"{", "}">>],
      [name |-> "search", arguments |-> BadArgs] }

SeqsUpTo(S, n) == UNION {[1..k -> S] : k \in 0..n}

\* lines 77-87: the session is opened and its resources are listed
RunStart ==
    /\ cpc = "Idle"
    /\ cpc' = "ListingTools"
    /\ UNCHANGED <<entry, reqVars, pagVars, casVars, tools, toolIdx, functions, llmCalls, sentTools,
                   modelCalls, functions_to_call, callIdx, invoked>>

\* lines 89-91
ListTools ==
    /\ cpc = "ListingTools"
    /\ tools' \in SeqsUpTo(Descriptors, MaxTools)
    /\ functions' = << >>
    /\ toolIdx' = 1
    /\ cpc' = "ConvertingSchemas"
    /\ UNCHANGED <<entry, reqVars, pagVars, casVars, llmCalls, sentTools, modelCalls,
                   functions_to_call, callIdx, invoked>>

\* a variant that leaves the conversion loop after its first iteration
ConversionOverAfterFirst(i, ts) == i > 1 \/ i > Len(ts)

\* line 92: the for loop over tools.tools is over
ConversionOver(i, ts) == i > Len(ts)

\* lines 92-97: one iteration of the conversion loop
ConvertOne ==
    /\ cpc = "ConvertingSchemas"
    /\ ~ConversionOver(toolIdx, tools)
    /\ IF PrintRaises(tools[toolIdx])
       THEN /\ cpc' = "Raised"
            /\ UNCHANGED <<toolIdx, functions>>
       ELSE /\ functions' = IF convert_to_llm_tool(tools[toolIdx]).ok
                            THEN Append(functions, convert_to_llm_tool(tools[toolIdx]))
                            ELSE functions
            /\ toolIdx' = toolIdx + 1
            /\ cpc' = cpc
    /\ UNCHANGED <<entry, reqVars, pagVars, casVars, tools, llmCalls, sentTools, modelCalls,
                   functions_to_call, callIdx, invoked>>

\* a variant whose test never holds (`if functions is None`)
NoFunctionsIsNone(fs) == FALSE

\* line 102
NoFunctions(fs) == fs = << >>

\* lines 99-104: after the loop, return when no schema was converted
CheckFunctions ==
    /\ cpc = "ConvertingSchemas"
    /\ ConversionOver(toolIdx, tools)
    /\ cpc' = IF NoFunctions(functions) THEN "Aborted" ELSE "AwaitingModel"
    /\ UNCHANGED <<entry, reqVars, pagVars, casVars, tools, toolIdx, functions, llmCalls, sentTools,
                   modelCalls, functions_to_call, callIdx, invoked>>

\* lines 106-108 and call_llm, lines 19-48: one request to the model, then the
\* parse of every tool call of its response
CallLlm ==
    /\ cpc = "AwaitingModel"
    /\ llmCalls' = llmCalls + 1
    /\ sentTools' = functions
    /\ modelCalls' \in SeqsUpTo(ToolCalls, MaxCalls)
    /\ IF ParseRaises(modelCalls')
       THEN /\ cpc' = "Raised"
            /\ UNCHANGED <<functions_to_call, callIdx>>
       ELSE /\ functions_to_call' = ParseCalls(modelCalls')
            /\ callIdx' = 1
            /\ cpc' = "Dispatching"
    /\ UNCHANGED <<entry, reqVars, pagVars, casVars, tools, toolIdx, functions, invoked>>

\* a variant that leaves the dispatch loop before its last call
DispatchOverBeforeLast(i, calls) == i >= Len(calls)

\* line 111: the for loop over functions_to_call is over
DispatchOver(i, calls) == i > Len(calls)

\* lines 111-113: one iteration of the dispatch loop
CallTool ==
    /\ cpc = "Dispatching"
    /\ ~DispatchOver(callIdx, functions_to_call)
    /\ invoked' = Append(invoked, functions_to_call[callIdx])
    /\ callIdx' = callIdx + 1
    /\ UNCHANGED <<entry, reqVars, pagVars, casVars, cpc, tools, toolIdx, functions, llmCalls,
                   sentTools, modelCalls, functions_to_call>>

\* line 113 was the last statement: run returns
RunDone ==
    /\ cpc = "Dispatching"
    /\ DispatchOver(callIdx, functions_to_call)
    /\ cpc' = "Done"
    /\ UNCHANGED <<entry, reqVars, pagVars, casVars, tools, toolIdx, functions, llmCalls, sentTools,
                   modelCalls, functions_to_call, callIdx, invoked>>

(***************************************************************************)
(* The specification: one run of one entry point.                          *)
(***************************************************************************)
Visa == <<"v", "i", "s", "a">>
Searches ==
    {<<st, Visa>> : st \in ValidTypes} \cup {<<"opinions", << >> >>, <<"cases", Visa>>}
Cursors == {<< >>, Token(2)}
MaxPagesInputs ==
    { <<"3">>, <<"2">>, <<"0">>, <<"-", "1">>, <<"1", "2">>, <<" ", "1">>, <<"x">> }
Sources == {PagedSource(n) : n \in {1, 2, 3, 9, MaxServed}} \cup {AnySource}

ReqIdle ==
    /\ retries = 0 /\ attempt = 0 /\ rpc = "idle" /\ events = << >>
    /\ rresult = NoResult /\ reqParams = EmptyDict
PagIdle ==
    /\ source = AnySource /\ search_type = "opinions" /\ query = << >> /\ cursor = << >>
    /\ max_pages = <<"3">> /\ ppc = "idle" /\ max_pages_int = 0 /\ params = EmptyDict
    /\ all_results = << >> /\ current_cursor = << >> /\ pages_fetched = 0 /\ fetches = 0
    /\ presult = NoText
CasIdle == filters = NoFilters /\ spc = "idle" /\ sresult = NoCasesText
CliIdle ==
    /\ tools = << >> /\ toolIdx = 0 /\ functions = << >> /\ llmCalls = 0
    /\ sentTools = << >> /\ modelCalls = << >> /\ functions_to_call = << >>
    /\ callIdx = 0 /\ invoked = << >>

\* a direct call make_api_request(endpoint, params, retries)
InitRequest ==
    /\ entry = "request"
    /\ retries \in (0 - 1)..MaxRetries /\ attempt = 0 /\ rpc = "loop" /\ events = << >>
    /\ rresult = NoResult /\ reqParams = EmptyDict
    /\ PagIdle /\ CasIdle /\ CliIdle /\ cpc = "Off"

\* a call of the tool search_with_pagination
InitPaginate ==
    /\ entry = "paginate"
    /\ ReqIdle
    /\ source \in Sources
    /\ \E sq \in Searches : search_type = sq[1] /\ query = sq[2]
    /\ cursor \in Cursors /\ max_pages \in MaxPagesInputs
    /\ ppc = "start" /\ max_pages_int = 0 /\ params = EmptyDict /\ all_results = << >>
    /\ current_cursor = << >> /\ pages_fetched = 0 /\ fetches = 0 /\ presult = NoText
    /\ CasIdle /\ CliIdle /\ cpc = "Off"

\* the arguments search_cases is exercised with: the defaults, every argument
\* empty, each argument alone, query and case name together, all of them
On == <<"o", "n">>
OneSet(k) ==
    Filters(IF k = 1 THEN Visa ELSE << >>, IF k = 2 THEN <<"R", "o", "e">> ELSE << >>,
            IF k = 3 THEN <<"c", "a", "9">> ELSE << >>, IF k = 4 THEN <<"2", "0", "2", "0">> ELSE << >>,
            IF k = 5 THEN <<"2", "0", "2", "1">> ELSE << >>, IF k = 6 THEN <<"5">> ELSE << >>,
            IF k = 7 THEN <<"K", "a", "g", "a", "n">> ELSE << >>, On, <<"2", "0">>)
FilterInputs ==
    {OneSet(k) : k \in 0..7}
    \cup {Filters(<< >>, << >>, << >>, << >>, << >>, << >>, << >>, << >>, <<"x">>),
          Filters(Visa, <<"R", "o", "e">>, << >>, << >>, << >>, << >>, << >>, On, <<"1">>),
          Filters(Visa, <<"R", "o", "e">>, <<"c", "a", "9">>, <<"2", "0", "2", "0">>,
                  <<"2", "0", "2", "1">>, <<"5">>, <<"K", "a", "g", "a", "n">>, On, <<"-", "1">>)}

\* a call of the tool search_cases
InitCases ==
    /\ entry = "cases"
    /\ ReqIdle /\ PagIdle
    /\ filters \in FilterInputs /\ spc = "start" /\ sresult = NoCasesText
    /\ CliIdle /\ cpc = "Off"

\* the client's run()
InitClient ==
    /\ entry = "client"
    /\ ReqIdle /\ PagIdle /\ CasIdle /\ CliIdle /\ cpc = "Idle"

Init == InitRequest \/ InitPaginate \/ InitCases \/ InitClient

Next ==
    \/ ReqAttempt \/ ReqSleep \/ ReqFallThrough
    \/ PagStart \/ PagIterate \/ PagResult
    \/ CasesStart \/ CasesResult
    \/ RunStart \/ ListTools \/ ConvertOne \/ CheckFunctions \/ CallLlm \/ CallTool \/ RunDone

Spec == Init /\ [][Next]_vars

\* Every entry point is straight-line code and loops over blocking calls: a step
\* that can be taken is taken.
FairSpec == Spec /\ WF_vars(Next)

(***************************************************************************)
(* Properties of make_api_request                                          *)
(***************************************************************************)
IsGet(ev) == ev.e = "get"
IsResponse(ev) == ev.e = "get" /\ ev.out.t = "Response"
LastEvent == events[Len(events)]

\* a timeout, a connection error or an HTTP error status other than 429, 401, 404
RetryableFailure(o) ==
    \/ o.t \in {"Timeout", "ConnectionError"}
    \/ o.t = "Response" /\ o.status >= 400 /\ o.status \notin {429, 401, 404}
AllAttemptsFailed == \A i \in 1..Len(events) : IsGet(events[i]) => RetryableFailure(events[i].out)

\* C1: a call with budget n >= 1 whose every attempt fails with a retryable error
\* issues exactly n requests with the sleeps 2^0, ..., 2^(n-2) between them, none
\* after the last, and returns the exhaustion error carrying n.
C1_RetryExhaustion ==
    (rpc = "returned" /\ retries >= 1 /\ AllAttemptsFailed) =>
        /\ Len(events) = 2 * retries - 1
        /\ \A i \in 1..Len(events) :
              IF i % 2 = 1 THEN events[i].e = "get"
              ELSE events[i].e = "sleep" /\ events[i].d = 2 ^ ((i \div 2) - 1)
        /\ rresult.tag = "error"
        /\ rresult.msg \in {"Request timed out after", "API request failed after"}
        /\ rresult.n = retries

C1_Witness ==
    /\ entry = "request" /\ rpc = "returned" /\ retries = 4 /\ AllAttemptsFailed
    /\ Len(events) = 7 /\ events[6].d = 4

\* C2: a response with status 429, 401 or 404, at whichever attempt, is the last
\* thing the call does, and the error returned is the one of that status.
C2_TerminalStatusEndsCall ==
    \A i \in 1..Len(events) :
        (IsResponse(events[i]) /\ events[i].out.status \in {429, 401, 404}) =>
            /\ i = Len(events)
            /\ rpc \in {"returned", "idle"}
            /\ rresult.tag = "error"
            /\ rresult.msg = CASE events[i].out.status = 429 -> "Rate limit exceeded"
                               [] events[i].out.status = 401 -> "Authentication failed"
                               [] events[i].out.status = 404 -> "Not found or invalid cursor"

C2_Witness ==
    /\ entry = "request" /\ rpc = "returned" /\ retries = 4 /\ Len(events) = 3
    /\ IsResponse(LastEvent) /\ LastEvent.out.status = 404
    /\ rresult.msg = "Not found or invalid cursor"

\* C7: the call never raises: whatever the outcomes, it returns the decoded body
\* or an error record.
C7_NeverRaises ==
    /\ rpc # "raised"
    /\ rpc = "returned" =>
          \/ rresult.tag = "error" /\ rresult.msg # ""
          \/ rresult.tag = "json" /\ rresult.body.dec

C7_Witness ==
    /\ entry = "request" /\ rpc = "returned" /\ rresult.tag = "error"
    /\ \E i \in 1..Len(events) :
          IsResponse(events[i]) /\ events[i].out.status = 200 /\ ~events[i].out.body.dec

\* C8: a 2xx response returns its decoded body when the body decodes, and a
\* failure that is neither the retry exhaustion nor the network failure when it
\* does not.
C8_DecodeErrorIsItsOwnKind ==
    (rpc = "returned" /\ Len(events) > 0 /\ IsResponse(LastEvent)
     /\ LastEvent.out.status \in 200..299) =>
        IF LastEvent.out.body.dec
        THEN rresult = JsonResult(LastEvent.out.body)
        ELSE /\ rresult.tag = "error"
             /\ rresult.msg \notin {"API request failed after", "Request timed out after",
                                    "Maximum retries exceeded"}

(***************************************************************************)
(* Properties of search_with_pagination                                    *)
(***************************************************************************)
\* C3: one aggregation makes at most min(requested, 10) page fetches: never more
\* than 10, never more than a requested count, none for a negative one.
C3_FetchesBounded ==
    /\ fetches <= 10
    /\ (IntOk(max_pages) /\ IntVal(max_pages) >= 0) => fetches <= Min(IntVal(max_pages), 10)
    /\ (IntOk(max_pages) /\ IntVal(max_pages) < 0) => fetches = 0

C3_Witness ==
    /\ ppc = "returned" /\ max_pages = <<"1", "2">> /\ fetches = 10 /\ pages_fetched = 10
    /\ source = PagedSource(MaxServed)

PageArrived == ppc = "await" /\ rpc = "returned" /\ ~HasErrorKey(rresult)

\* C9: when the page that arrived has no `next` (absent or null), the aggregation
\* returns with the items of that page included, and requests nothing more.
C9_StopsWithoutNext ==
    [][ /\ (PageArrived /\ rresult.body.next.kind \in {"absent", "null"}) =>
            /\ ppc' = "returned"
            /\ fetches' = fetches
            /\ presult'.kind # "error"
            /\ presult'.items = all_results \o rresult.body.results
        /\ ppc = "returned" => (ppc' = "returned" /\ fetches' = fetches) ]_vars

C9_Witness ==
    /\ ppc = "returned" /\ presult.kind = "found" /\ fetches = 2 /\ max_pages_int = 10
    /\ rresult.tag = "json" /\ rresult.body.next.kind = "null"
    /\ presult.items = Items(1) \o Items(2)

RECURSIVE FirstPages(_)
FirstPages(k) == IF k <= 0 THEN << >> ELSE FirstPages(k - 1) \o Items(k)

\* C10: against a source of P pages, an aggregation from the first page with
\* maxPages = m whose fetches all succeed returns the items of the first
\* k = min(m, P, 10) pages, in page order and within-page order, and reports k
\* pages (no item at all when m is below 1).
C10_FirstPagesInOrder ==
    (/\ entry = "paginate" /\ ppc = "returned" /\ source.kind = "paged"
     /\ search_type \in ValidTypes /\ cursor = << >>
     /\ IntOk(max_pages) /\ presult.kind # "error") =>
        LET k == Min(Min(IntVal(max_pages), source.pages), 10)
        IN IF k >= 1
           THEN /\ presult.kind = "found"
                /\ presult.items = FirstPages(k)
                /\ presult.count = Len(FirstPages(k))
                /\ presult.pages = k
           ELSE presult.kind = "none" /\ presult.items = << >>

C10_Witness ==
    /\ ppc = "returned" /\ source = PagedSource(3) /\ max_pages = <<"2">> /\ cursor = << >>
    /\ presult.kind = "found" /\ presult.count = 2 /\ presult.pages = 2
    /\ presult.items = <<10, 20>>

\* C11: the request of every iteration carries exactly the cursor held (the
\* caller's on the first iteration, then the one of the previous page's link),
\* and no cursor parameter at all when none is held.
C11_CursorParameter ==
    (entry = "paginate" /\ ppc = "await") =>
        /\ reqParams = params
        /\ IF current_cursor # << >>
           THEN "cursor" \in DOMAIN reqParams /\ reqParams["cursor"] = current_cursor
           ELSE "cursor" \notin DOMAIN reqParams
        /\ (fetches = 1 => current_cursor = cursor)
        /\ (source.kind = "paged" /\ cursor = << >> /\ fetches >= 2) =>
              /\ "cursor" \in DOMAIN reqParams
              /\ reqParams["cursor"] = Token(fetches)
        /\ (source.kind = "paged" /\ cursor = Token(2)) =>
              /\ "cursor" \in DOMAIN reqParams
              /\ reqParams["cursor"] = Token(fetches + 1)
        /\ \A k \in DOMAIN reqParams \ {"cursor"} : k = QueryKey(search_type) /\ reqParams[k] = query

C11_Witness ==
    /\ ppc = "await" /\ source = PagedSource(3) /\ cursor = << >> /\ fetches = 3
    /\ reqParams["cursor"] = Token(3) /\ query # << >>

C11_WitnessDropped ==
    /\ ppc = "await" /\ fetches = 2 /\ cursor = Token(2) /\ current_cursor = << >>
    /\ "cursor" \notin DOMAIN reqParams

\* C12: a failure returned by make_api_request for any page ends the
\* aggregation with that failure's error as its result, and no further request.
C12_FailureSurfaced ==
    [][ (ppc = "await" /\ rpc = "returned" /\ rresult.tag = "error") =>
            /\ ppc' = "returned"
            /\ presult'.kind = "error"
            /\ presult'.msg = rresult.msg
            /\ presult'.msg \in {"Rate limit exceeded", "Authentication failed",
                                 "Not found or invalid cursor", "Request timed out after",
                                 "API request failed after"}
            /\ fetches' = fetches ]_vars

C12_Witness ==
    /\ ppc = "returned" /\ presult.kind = "error" /\ presult.msg = "Request timed out after"
    /\ fetches = 3 /\ pages_fetched = 2 /\ Len(all_results) = 2

\* the token the claim describes: what follows the first `cursor=`, up to the
\* following `&` or to the end of the link
AfterFirstCursorEq(u) == SubSeq(u, Find(u, CursorEq) + Len(CursorEq), Len(u))
UpToAmp(t) ==
    IF \E i \in 1..Len(t) : t[i] = "&"
    THEN SubSeq(t, 1, (CHOOSE i \in 1..Len(t) : t[i] = "&" /\ \A j \in 1..(i - 1) : t[j] # "&") - 1)
    ELSE t
LinkedOn ==
    /\ ppc = "top" /\ fetches >= 1 /\ rresult.tag = "json"
    /\ rresult.body.next.kind = "url" /\ Contains(rresult.body.next.url, CursorEq)

\* C13: the cursor taken from a `next` link is what stands between the first
\* `cursor=` and the following `&` (or the end of the link); a link without
\* `cursor=` ends the aggregation.
C13_CursorIsSubstring ==
    /\ LinkedOn => current_cursor = UpToAmp(AfterFirstCursorEq(rresult.body.next.url))
    /\ (ppc = "top" /\ fetches >= 1) => LinkedOn

(***************************************************************************)
(* Properties of the dispatch loop                                         *)
(***************************************************************************)
Parsed(c) == [name |-> c.name, args |-> JsonLoads(c.arguments)]
RunEnded == cpc \in {"Done", "Aborted", "Raised"}

\* C4: when the model returned tool calls, every call whose argument string is
\* valid JSON is invoked, whether or not another call's string is malformed.
C4_OnlyBadCallAbandoned ==
    (RunEnded /\ llmCalls = 1) =>
        \A i \in 1..Len(modelCalls) :
            JsonOk(modelCalls[i].arguments) =>
                \E j \in 1..Len(invoked) : invoked[j] = Parsed(modelCalls[i])

\* C5: no schema built from a descriptor with a missing or empty name, or a
\* missing or empty description, is in the list sent to the model.
C5_BadDescriptorRejected ==
    \A i \in 1..Len(functions) :
        /\ ~functions[i].name.isNone /\ functions[i].name.s # ""
        /\ ~functions[i].description.isNone /\ functions[i].description.s # ""

\* C6: with an empty schema list the run ends without contacting the model and
\* without invoking a tool.
C6_EmptySchemaListAborts ==
    (entry = "client" /\ functions = << >>) =>
        /\ cpc \in {"Idle", "ListingTools", "ConvertingSchemas", "Aborted", "Raised"}
        /\ llmCalls = 0
        /\ invoked = << >>
        /\ (cpc = "ConvertingSchemas" /\ toolIdx > Len(tools)) => ~ENABLED CallLlm

C6_Witness ==
    /\ cpc = "Aborted" /\ Len(tools) = 2 /\ functions = << >> /\ llmCalls = 0

RECURSIVE ParsedAll(_)
ParsedAll(calls) == IF calls = << >> THEN << >> ELSE <<Parsed(Head(calls))>> \o ParsedAll(Tail(calls))

\* C14: the calls invoked are, at every moment, the first calls of the model's
\* response, in its order, each once, with its name and its decoded arguments;
\* the loop position tells which, and a finished run has invoked them all.
C14_SequentialInOrder ==
    /\ Len(invoked) <= Len(modelCalls)
    /\ invoked = SubSeq(ParsedAll(modelCalls), 1, Len(invoked))
    /\ cpc = "Dispatching" => Len(invoked) = callIdx - 1
    /\ cpc = "Done" => invoked = ParsedAll(modelCalls)

C14_Witness ==
    /\ cpc = "Done" /\ Len(invoked) = 3
    /\ invoked[1].name = "status" /\ invoked[2].name = "search" /\ invoked[3].name = "status"
    /\ invoked[2].args = [k \in {"q"} |-> 1]

\* the descriptors convert_to_llm_tool accepts among the first n listed, in order
RECURSIVE AcceptedSchemas(_, _)
AcceptedSchemas(ts, n) ==
    IF n = 0 THEN << >>
    ELSE IF ts[n].falsy \/ ~ts[n].hasName \/ ~ts[n].hasDescription
         THEN AcceptedSchemas(ts, n - 1)
         ELSE Append(AcceptedSchemas(ts, n - 1),
                     ToolSchema(ts[n].name, ts[n].description, PropertiesOf(ts[n])))

\* C15: the list sent to the model is the schemas of the accepted descriptors in
\* listing order; a run that listed at least one acceptable descriptor contacts
\* the model and dispatches, whatever else was listed or returned.
C15_AcceptedSchemasSent ==
    /\ llmCalls >= 1 => sentTools = AcceptedSchemas(tools, Len(tools))
    /\ (RunEnded /\ AcceptedSchemas(tools, Len(tools)) # << >>) => (llmCalls = 1 /\ cpc = "Done")

\* C16: the properties of every converted schema are an object, never null: the
\* descriptor's own when its input schema has them, the empty object otherwise.
C16_PropertiesNeverNull ==
    \A i \in 1..Len(functions) : ~functions[i].properties.null

\* Positions of run() in the order they are passed.
StageRank(pc) ==
    CASE pc = "Idle" -> 0
      [] pc = "ListingTools" -> 1
      [] pc = "ConvertingSchemas" -> 2
      [] pc = "AwaitingModel" -> 3
      [] pc = "Dispatching" -> 4
      [] pc = "Done" -> 5
      [] OTHER -> 6

\* C19: a run passes Idle, ListingTools, ConvertingSchemas, AwaitingModel,
\* Dispatching, Done in that order, one stage at a time or into an abort; the model
\* is contacted at most once, after the last conversion, and tools are invoked
\* only after its response was parsed.
C19_StagesInOrder ==
    /\ [](entry = "client" =>
            /\ llmCalls <= 1
            /\ llmCalls = 1 => (toolIdx > Len(tools) /\ StageRank(cpc) >= 4 /\ sentTools = functions)
            /\ llmCalls = 0 => (StageRank(cpc) <= 3 \/ StageRank(cpc) = 6)
            /\ invoked # << >> =>
                  (llmCalls = 1 /\ cpc \in {"Dispatching", "Done"}
                   /\ functions_to_call = ParsedAll(modelCalls)))
    /\ [][ entry = "client" =>
            \/ StageRank(cpc') = StageRank(cpc)
            \/ StageRank(cpc') = StageRank(cpc) + 1 /\ StageRank(cpc) <= 4
            \/ StageRank(cpc') = 6 /\ StageRank(cpc) \in {2, 3} ]_vars

C19_Witness ==
    /\ cpc = "Done" /\ Len(tools) = 2 /\ Len(functions) = 2 /\ llmCalls = 1 /\ Len(invoked) = 2

\* an aggregation has ended without a failure
EndedWell == entry = "paginate" /\ ppc = "returned" /\ presult.kind \in {"found", "none"}
\* the last page fetched carried no results
LastPageEmpty == fetches >= 1 /\ rresult.tag = "json" /\ PageIsEmpty(rresult.body)

\* C17 as stated: every aggregation that ends without a failure shows the number of
\* pages fetched and the number of items accumulated, also when it stopped on a
\* page with no results.
C17_PagesAndItemsShown ==
    EndedWell =>
        /\ presult.kind = "found"
        /\ presult.pages = fetches
        /\ presult.count = Len(all_results)

\* C17 as amended: an aggregation that ends without a failure and accumulated at
\* least one item shows the number of items accumulated and the number of fetched
\* pages that carried results (a last page without results is fetched, not
\* counted); one that accumulated nothing answers "No ... found", with no number.
C17_ItemsAndNonEmptyPagesShown ==
    EndedWell =>
        /\ presult.kind = "found" <=> all_results # << >>
        /\ presult.kind = "found" =>
              /\ presult.items = all_results
              /\ presult.count = Len(all_results)
              /\ presult.pages = pages_fetched
              /\ presult.pages = IF LastPageEmpty THEN fetches - 1 ELSE fetches
              /\ presult.pages >= 1
        /\ presult.kind = "none" =>
              /\ presult.count = 0 /\ presult.pages = 0
              /\ pages_fetched = 0
              /\ fetches \in {0, 1}
              /\ fetches = 1 => LastPageEmpty

C17_Witness ==
    /\ EndedWell /\ presult.kind = "found" /\ LastPageEmpty
    /\ fetches = 3 /\ presult.pages = 2 /\ presult.count >= 2

C17_WitnessNone == EndedWell /\ presult.kind = "none" /\ fetches = 1 /\ LastPageEmpty

\* the number of HTTP requests among the first k events
RECURSIVE Gets(_)
Gets(k) == IF k = 0 THEN 0 ELSE Gets(k - 1) + (IF IsGet(events[k]) THEN 1 ELSE 0)

OtherNon2xx(ev) ==
    IsResponse(ev) /\ ev.out.status \notin 200..299 /\ ev.out.status \notin {429, 401, 404}

\* C18: a response whose status is neither 2xx nor 429, 401, 404 is never
\* returned as the call's body: while budget remains the call sleeps and retries,
\* and at the last attempt it returns the exhaustion error.
C18_OtherStatusRetried ==
    \A i \in 1..Len(events) :
        OtherNon2xx(events[i]) =>
            IF i < Len(events) THEN events[i + 1].e = "sleep"
            ELSE IF Gets(i) < retries THEN rpc = "sleep"
            ELSE /\ rpc \in {"returned", "idle"}
                 /\ rresult.tag = "error"
                 /\ rresult.msg = "API request failed after"

\* C20: whatever the outcomes, a call with budget n issues at most n requests
\* (3 for the calls the pagination makes), and every sleep has a request right
\* before it and right after it: no sleep is the first or the last thing done.
C20_RequestsBounded ==
    /\ Gets(Len(events)) <= (IF retries > 0 THEN retries ELSE 0)
    /\ (entry = "paginate" /\ rpc # "idle") => (retries = 3 /\ Gets(Len(events)) <= 3)
    /\ \A i \in 1..Len(events) :
          events[i].e = "sleep" =>
              /\ i > 1 /\ IsGet(events[i - 1])
              /\ i < Len(events) => IsGet(events[i + 1])
              /\ i = Len(events) => (rpc = "loop" /\ attempt < retries)

C20_Witness ==
    /\ entry = "request" /\ rpc = "returned" /\ retries = 3
    /\ Len(events) = 5 /\ Gets(5) = 3
    /\ events[2].e = "sleep" /\ events[4].e = "sleep"
    /\ IsResponse(LastEvent) /\ LastEvent.out.status = 200

C20_WitnessDefault ==
    /\ entry = "paginate" /\ rpc = "returned" /\ retries = 3 /\ Gets(Len(events)) = 3
    /\ rresult.tag = "error"

\* C21: pages are requested one after another: a call of make_api_request is in
\* progress only while the aggregation waits for it, and when the request for
\* page N+1 is about to be issued, all N requests before it have returned a
\* decoded page, with their retries and sleeps over.
C21_PagesSequential ==
    entry = "paginate" =>
        /\ rpc # "idle" => (ppc = "await" /\ fetches >= 1)
        /\ ppc = "await" =>
              /\ pages_fetched = fetches - 1
              /\ Gets(Len(events)) <= DefaultRetries
              /\ rpc \in {"loop", "sleep"} => rresult = NoResult
        /\ (ppc = "top" /\ fetches >= 1) =>
              /\ rpc = "idle"
              /\ rresult.tag = "json" /\ rresult.body.dec /\ ~rresult.body.err
              /\ pages_fetched = fetches
              /\ events # << >> /\ IsResponse(LastEvent) /\ LastEvent.out.body = rresult.body

C21_Witness ==
    /\ entry = "paginate" /\ ppc = "await" /\ fetches = 3 /\ pages_fetched = 2
    /\ rpc = "sleep" /\ Len(events) = 3

\* the parameter each optional filter of search_cases is sent as
FilterKeys ==
    [court |-> "court", date_filed_after |-> "filed_after", date_filed_before |-> "filed_before",
     cited_gt |-> "cited_gt", judge |-> "judge", highlight |-> "highlight"]

\* C22: no request of search_with_pagination or of search_cases carries a
\* parameter with an empty value: an optional input is in the parameters exactly
\* when it is not empty, and the cursor exactly when one is held.
C22_UnsetInputsOmitted ==
    /\ (entry \in {"paginate", "cases"} /\ rpc # "idle") =>
          \A k \in DOMAIN reqParams : reqParams[k] # << >>
    /\ (entry = "paginate" /\ ppc = "await") =>
          /\ QueryKey(search_type) \in DOMAIN reqParams <=> query # << >>
          /\ "cursor" \in DOMAIN reqParams <=> current_cursor # << >>
          /\ DOMAIN reqParams \subseteq {QueryKey(search_type), "cursor"}
    /\ (entry = "cases" /\ spc = "await") =>
          /\ \A a \in DOMAIN FilterKeys :
                /\ FilterKeys[a] \in DOMAIN reqParams <=> filters[a] # << >>
                /\ filters[a] # << >> => reqParams[FilterKeys[a]] = filters[a]
          /\ "q" \in DOMAIN reqParams <=> (filters.query # << >> \/ filters.case_name # << >>)
          /\ DOMAIN reqParams \subseteq
                {"type", "format", "q"} \cup {FilterKeys[a] : a \in DOMAIN FilterKeys}

C22_Witness ==
    /\ entry = "cases" /\ spc = "await" /\ rpc = "sleep"
    /\ filters.court # << >> /\ filters.judge = << >> /\ filters.query = << >>
    /\ DOMAIN reqParams = {"type", "format", "court", "highlight"}

C22_WitnessNoCursor ==
    /\ entry = "paginate" /\ ppc = "await" /\ fetches = 2 /\ cursor # << >> /\ query = << >>
    /\ reqParams = EmptyDict

\* C23: when a page fails after earlier pages of the aggregation succeeded, what
\* search_with_pagination returns carries the error and the items accumulated
\* from the earlier pages.
C23_PartialResultsKept ==
    (entry = "paginate" /\ ppc = "returned" /\ presult.kind = "error" /\ pages_fetched >= 1) =>
        /\ presult.msg # ""
        /\ presult.items = all_results
        /\ presult.count = Len(all_results)

\* C24: every run of the dispatch cycle ends, in Done or by an abort (the return
\* on an empty schema list, or an exception leaving run); a run that ends in Done
\* has invoked each of the k parsed calls once, none when k = 0.
C24_CycleEnds ==
    /\ (entry = "client") ~> RunEnded
    /\ [](cpc = "Done" =>
            /\ Len(invoked) = Len(functions_to_call)
            /\ Len(functions_to_call) = Len(modelCalls)
            /\ invoked = functions_to_call)
    /\ []((cpc = "Dispatching" /\ functions_to_call = << >>) => invoked = << >>)
    /\ [][(cpc = "Dispatching" /\ functions_to_call = << >>) => cpc' \in {"Dispatching", "Done"}]_vars

C24_Witness ==
    /\ cpc = "Done" /\ Len(modelCalls) = 3 /\ Len(invoked) = 3

C24_WitnessNoCalls ==
    /\ cpc = "Done" /\ llmCalls = 1 /\ modelCalls = << >> /\ invoked = << >>

\* an attempt that fails and is retried: a timeout, a connection error, an HTTP
\* error status other than 429, 401, 404, or a body that does not decode
FailedAttempt(o) ==
    \/ RetryableFailure(o)
    \/ o.t = "Response" /\ o.status \notin {429, 401, 404} /\ ~o.body.dec
DecodableOk(o) == o.t = "Response" /\ o.status \in 200..299 /\ o.body.dec

\* C25: when the first k attempts fail with a retryable error and attempt k+1
\* gets a decodable 2xx response, the call returns that body, unchanged, after
\* k+1 requests and the k sleeps 2^0, ..., 2^(k-1) between them.
C25_SuccessAfterRetries ==
    (rpc \in {"returned", "idle"} /\ events # << >> /\ IsGet(LastEvent) /\ DecodableOk(LastEvent.out)) =>
        LET k == Gets(Len(events)) - 1 IN
        /\ k < retries
        /\ Len(events) = 2 * k + 1
        /\ \A i \in 1..k :
              /\ IsGet(events[2 * i - 1]) /\ FailedAttempt(events[2 * i - 1].out)
              /\ events[2 * i].e = "sleep" /\ events[2 * i].d = 2 ^ (i - 1)
        /\ rresult = [tag |-> "json", msg |-> "", n |-> 0, body |-> LastEvent.out.body]

C25_Witness ==
    /\ entry = "request" /\ rpc = "returned" /\ retries = 4 /\ Len(events) = 7
    /\ events[1].out.t = "Timeout" /\ events[3].out.t = "Response" /\ events[3].out.status = 500
    /\ events[6].d = 4
    /\ DecodableOk(LastEvent.out) /\ rresult.tag = "json"

\* C26: search_with_pagination returns whatever the server answers, also when
\* every page is non-empty and links on, or links to the same cursor again; the
\* loop body runs at most as often as the clamped ceiling, never more than 10 times.
C26_AlwaysTerminates ==
    /\ (entry = "paginate") ~> (ppc \in {"returned", "raised"})
    /\ [](entry = "paginate" =>
            /\ fetches <= PageCeiling
            /\ ppc \in {"top", "await", "returned"} /\ search_type \in ValidTypes =>
                  fetches <= (IF max_pages_int > 0 THEN max_pages_int ELSE 0))

C26_Witness ==
    /\ source = AnySource /\ ppc = "returned" /\ fetches = 10 /\ pages_fetched = 10
    /\ current_cursor = Token(2) /\ params["cursor"] = Token(2)
    /\ rresult.tag = "json" /\ rresult.body.next.kind = "url"

\* the parameters of the first request of the aggregation
FirstRequestParams == IterParams(BaseParams(search_type, query, cursor), cursor)

\* C27: when the links carry cursor tokens that differ from all earlier ones, no
\* request repeats the parameters of an earlier one, also when a token is empty:
\* the second request differs from the first, and against a paged source request
\* k carries the k-th token.
C27_NoRequestRepeated ==
    (entry = "paginate" /\ ppc = "await" /\ fetches >= 2) =>
        /\ (fetches = 2 /\ (cursor = << >> \/ current_cursor # cursor)) =>
              reqParams # FirstRequestParams
        /\ source.kind = "paged" =>
              /\ "cursor" \in DOMAIN reqParams
              /\ reqParams["cursor"] = Token(IF cursor = << >> THEN fetches ELSE fetches + 1)

\* min(int(max_pages), 10), or 3 when int() raises, for the inputs of the model
ExpectedCeiling ==
    CASE max_pages = <<"3">> -> 3
      [] max_pages = <<"2">> -> 2
      [] max_pages = <<"0">> -> 0
      [] max_pages = <<"-", "1">> -> 0 - 1
      [] max_pages = <<"1", "2">> -> 10
      [] max_pages = <<" ", "1">> -> 1
      [] max_pages = <<"x">> -> 3

\* C28: the page ceiling in effect is min(int(max_pages), 10) for a max_pages that
\* parses and 3 for one that does not; with a ceiling of zero or less no request
\* is issued and the tool answers "No ... found", not an error.
C28_EffectiveCeiling ==
    (entry = "paginate" /\ search_type \in ValidTypes /\ ppc \in {"top", "await", "returned"}) =>
        /\ max_pages_int = ExpectedCeiling
        /\ pages_fetched <= (IF ExpectedCeiling > 0 THEN ExpectedCeiling ELSE 0)
        /\ ExpectedCeiling <= 0 =>
              /\ ppc \in {"top", "returned"}
              /\ fetches = 0 /\ events = << >> /\ rpc = "idle"
              /\ ppc = "returned" => (presult.kind = "none" /\ presult.items = << >>)

C28_Witness ==
    /\ entry = "paginate" /\ ppc = "returned" /\ max_pages = <<"x">> /\ source = PagedSource(9)
    /\ fetches = 3 /\ presult.kind = "found" /\ presult.pages = 3

C28_WitnessNegative ==
    /\ entry = "paginate" /\ ppc = "returned" /\ max_pages = <<"-", "1">> /\ source = PagedSource(9)
    /\ fetches = 0 /\ presult.kind = "none"

IsFallThrough(r) == r.tag = "error" /\ r.msg = "Maximum retries exceeded"

\* C29: with a budget of zero or less the call makes no request and no sleep and
\* returns "Maximum retries exceeded"; a call with a positive budget never returns
\* that failure.
C29_FallThroughOnlyWithoutBudget ==
    /\ (entry = "request" /\ retries <= 0) =>
          /\ events = << >>
          /\ attempt = 0
          /\ rpc \in {"loop", "returned"}
          /\ rpc = "returned" => IsFallThrough(rresult)
    /\ IsFallThrough(rresult) => (retries <= 0 /\ events = << >> /\ entry = "request")
    /\ (retries >= 1 /\ rpc = "returned") => events # << >>

C29_Witness ==
    /\ entry = "request" /\ retries = 0 - 1 /\ rpc = "returned" /\ events = << >>
    /\ IsFallThrough(rresult)

C29_WitnessZero ==
    /\ entry = "request" /\ retries = 0 /\ rpc = "returned" /\ IsFallThrough(rresult)

====
